---------------------------- MODULE Spec2Model ----------------------------
(***************************************************************************)
(* A model of the OCR processing engine of ollama_ocr: OCRProcessor        *)
(* (src/src/ollama_ocr/ocr_processor.py) and the caller's run life cycle   *)
(* (src/src/ollama_ocr/app.py).                                            *)
(*                                                                         *)
(* Strings are Python strings; file names, prompts, backend responses and  *)
(* returned texts are built with the same concatenations as the code.      *)
(* Money is counted in nano-dollars (1e-9 USD): a price of the PRICING     *)
(* table is kept in milli-dollars per million tokens, so tokens * price    *)
(* is the cost in nano-dollars, exactly.  The code computes the same       *)
(* figure in binary floating point; rounding is not modelled.              *)
(*                                                                         *)
(* One thread of the pool runs process_image for one job.  Its steps are   *)
(* the places where it touches state shared with the other threads: the    *)
(* file system, the progress callback and the three usage counters.  An    *)
(* augmented assignment  self.x += d  is a read of self.x, the addition    *)
(* and a write of self.x; nothing orders it with the other threads, so     *)
(* the read and the write are separate steps.  The three augmented         *)
(* assignments of one backend call are taken together: one step reads the  *)
(* three counters and a later step writes them.  Every behaviour of that   *)
(* is one of the code (the other threads' writes that fall between the two *)
(* steps can fall between the read and the write of each counter in turn), *)
(* so a lost update found here is one the code can lose; the behaviours in *)
(* which a call loses its update of some counters only are left out.       *)
(***************************************************************************)
EXTENDS Integers, Sequences, FiniteSets, TLC

(***************************************************************************)
(* Bounds of the model.                                                    *)
(***************************************************************************)
MaxJobs == 2        \* longest list of paths handed to process_batch
MaxPages == 2       \* most pages of a PDF
MaxWorkers == 2     \* largest max_workers

(***************************************************************************)
(* Strings.                                                                *)
(***************************************************************************)
EndsWith(s, suffix) ==
    /\ Len(s) >= Len(suffix)
    /\ SubSeq(s, Len(s) - Len(suffix) + 1, Len(s)) = suffix

\* key in name
Contains(name, key) ==
    \E i \in 0..(Len(name) - Len(key)) : SubSeq(name, i + 1, i + Len(key)) = key

RECURSIVE Join(_, _)
\* sep.join(strs)
Join(sep, strs) ==
    IF strs = << >> THEN ""
    ELSE IF Len(strs) = 1 THEN strs[1]
    ELSE strs[1] \o sep \o Join(sep, Tail(strs))

Range(f) == {f[x] : x \in DOMAIN f}

UpperCase == "ABCDEFGHIJKLMNOPQRSTUVWXYZ"
LowerCase == "abcdefghijklmnopqrstuvwxyz"

RECURSIVE Lower(_)
\* s.lower()
Lower(s) ==
    IF s = "" THEN ""
    ELSE LET c == SubSeq(s, 1, 1)
             at == {i \in 1..Len(UpperCase) : SubSeq(UpperCase, i, i) = c}
         IN  (IF at = {} THEN c ELSE LET i == CHOOSE i \in at : TRUE IN SubSeq(LowerCase, i, i))
               \o Lower(SubSeq(s, 2, Len(s)))

(***************************************************************************)
(* The inputs: the files a caller submits, the backends, the formats.      *)
(***************************************************************************)
ImageFile == "a.png"
PdfFile == "d.pdf"
SourcePaths == {ImageFile, PdfFile}

\* an image of the caller whose name ends like the name of a temporary file
TempNamedFile == "scan_temp.jpg"

Providers == {"ollama", "openai", "gemini"}
Formats == {"markdown", "json", "custom"}

\* image_path.lower().endswith('.pdf'); the file names of the model are in
\* lower case
IsPdf(path) == EndsWith(path, ".pdf")


(***************************************************************************)
(* Prompt templates (process_image).  Only the first sentence of each      *)
(* template is kept; the rest of a template is fixed text.                 *)
(***************************************************************************)
PromptTemplate(format, language) ==
    CASE format = "markdown" ->
           "Extract all text content from this image in " \o language
             \o " **exactly as it appears**, without modification, summarization, or omission."
      [] format = "json" ->
           "Extract all text from this image in " \o language
             \o " and format it as JSON, **strictly preserving** the structure."
      [] format = "structured" ->
           "Extract all text from this image in " \o language
             \o ", **ensuring complete structural accuracy**:"
      [] format = "key_value" ->
           "Extract all key-value pairs from this image in " \o language
             \o " **exactly as they appear**:"
      [] format = "table" ->
           "Extract all tabular data from this image in " \o language
             \o " **exactly as it appears**, without modification, summarization, or omission."
      [] OTHER ->
           "Extract all visible text from this image in " \o language
             \o " **without any changes**."

\* custom_prompt.strip() of the prompts of the model: a prompt of blanks only is
\* the one written here
Strip(s) == IF s = "   " THEN "" ELSE s

NoPrompt == ""      \* custom_prompt = None (or the empty string): both are falsy
BlankPrompt == "   "
OwnPrompt == "Read the total of this invoice."
Prompts == {NoPrompt, BlankPrompt, OwnPrompt}

\* the language hints of the model: process_image's default, the application's
\* default, and Japanese and Chinese by name and by code
DefaultLanguage == "en"
Languages == {DefaultLanguage, "pt-br", "Japanese", "zh", "ja"}

\* Prompt, were a custom prompt to replace the template of the "custom" format only
PromptOfCustomFormatOnly(format, custom, hint) ==
    IF format = "custom" /\ custom /= NoPrompt /\ Strip(custom) /= ""
    THEN custom
    ELSE PromptTemplate(format, hint)

\* the prompt sent with a page
Prompt(format, custom, hint) ==
    IF custom /= NoPrompt /\ Strip(custom) /= ""
    THEN custom
    ELSE PromptTemplate(format, hint)

(***************************************************************************)
(* Token and cost estimates.                                               *)
(***************************************************************************)
\* _estimate_tokens: both callers (Gemini, Ollama) run with tokenizer = None
EstimateTokens(text) == Len(text) \div 4

\* the pixel size of every image of the model
ImageShape == [width |-> 1024, height |-> 768]

\* EstimateImageTokens, were the image left out of the estimate
EstimateImageTokensUnread(provider, readable, shape) == 0

\* _estimate_image_tokens; readable = cv2.imread found and decoded the file
EstimateImageTokens(provider, readable, shape) ==
    IF ~readable THEN 0
    ELSE IF provider = "openai"
         THEN 85 + (((shape.width \div 512) + 1) * ((shape.height \div 512) + 1)) * 170
    ELSE IF provider = "gemini" THEN 258
    ELSE (shape.width * shape.height) \div 1000

\* PRICING, in the order of the dict, in milli-dollars per million tokens
PRICING(provider) ==
    CASE provider = "openai" ->
           << [key |-> "gpt-4o",        input |-> 2500,  output |-> 10000],
              [key |-> "gpt-4o-mini",   input |-> 150,   output |-> 600],
              [key |-> "gpt-4-turbo",   input |-> 10000, output |-> 30000],
              [key |-> "gpt-4",         input |-> 30000, output |-> 60000],
              [key |-> "gpt-3.5-turbo", input |-> 500,   output |-> 1500] >>
      [] provider = "gemini" ->
           << [key |-> "gemini-1.5-pro",       input |-> 1250, output |-> 5000],
              [key |-> "gemini-1.5-flash",     input |-> 75,   output |-> 300],
              [key |-> "gemini-2.0-flash-exp", input |-> 0,    output |-> 0] >>
      [] OTHER ->
           << [key |-> "default", input |-> 0, output |-> 0] >>

\* the provider's default entry
DefaultPricing(provider) ==
    IF provider = "openai" THEN PRICING("openai")[1] ELSE PRICING("gemini")[2]

\* SelectPricing, were the entry of the longest key in the model name taken
SelectPricingLongestKey(provider, model) ==
    LET table == PRICING(provider)
        hits == {i \in DOMAIN table : Contains(model, table[i].key)}
    IN  IF hits = {} THEN DefaultPricing(provider)
        ELSE table[CHOOSE i \in hits : \A k \in hits : Len(table[i].key) >= Len(table[k].key)]

\* the entry the loop "for model_key in PRICING[provider]" stops at
SelectPricing(provider, model) ==
    LET table == PRICING(provider)
        hits == {i \in DOMAIN table : Contains(model, table[i].key)}
    IN  IF hits = {} THEN DefaultPricing(provider)
        ELSE table[CHOOSE i \in hits : \A k \in hits : i <= k]

\* _calculate_cost, in nano-dollars
CalculateCost(provider, model, input_tokens, output_tokens) ==
    IF provider = "ollama" THEN 0
    ELSE LET pricing == SelectPricing(provider, model)
         IN  input_tokens * pricing.input + output_tokens * pricing.output

\* USD_TO_BRL = 6.10, in tenths
UsdToBrlTenths == 61

\* get_usage_stats; estimated_cost_brl in units of 1e-10 BRL
UsageStats(input_tokens, output_tokens, cost) ==
    [input_tokens |-> input_tokens,
     output_tokens |-> output_tokens,
     total_tokens |-> input_tokens + output_tokens,
     estimated_cost_usd |-> cost,
     estimated_cost_brl |-> cost * UsdToBrlTenths]

(***************************************************************************)
(* Preprocessing: the binarization _preprocess_image applies.              *)
(***************************************************************************)
\* "Language-specific thresholding": cv2.adaptiveThreshold(denoised, 255,
\* ADAPTIVE_THRESH_GAUSSIAN_C, THRESH_BINARY, 11, 2) or cv2.threshold(denoised,
\* 0, 255, THRESH_BINARY + THRESH_OTSU), and cv2.bitwise_not after either
Threshold(language) ==
    IF Lower(language) \in {"japanese", "chinese", "zh", "korean"}
    THEN [method |-> "adaptive_gaussian", block_size |-> 11, C |-> 2, inverted |-> TRUE]
    ELSE [method |-> "otsu", block_size |-> 0, C |-> 0, inverted |-> TRUE]

\* no image was binarized
NoThreshold == [method |-> "none", block_size |-> 0, C |-> 0, inverted |-> FALSE]

(***************************************************************************)
(* Temporary files.                                                        *)
(***************************************************************************)
\* _pdf_to_images: temp_path of page page_num (from 0)
PageFile(pdf_path, page_num) == pdf_path \o "_page" \o ToString(page_num) \o ".png"

\* _preprocess_image: preprocessed_path
PreprocessedFile(image_path) == image_path \o "_preprocessed.jpg"

\* every temporary file process_image may create for a source path
TempFilesOf(path) ==
    IF IsPdf(path)
    THEN UNION {{PageFile(path, k), PreprocessedFile(PageFile(path, k))} : k \in 0..(MaxPages - 1)}
    ELSE {PreprocessedFile(path)}

(***************************************************************************)
(* The backend.  What a vision model reads off an image is a function of   *)
(* the page when it is asked for text; asked for JSON, it answers a JSON   *)
(* document or prose.                                                      *)
(***************************************************************************)
JsonAnswer == "{\"a\":1}"
ProseAnswer == "not json"

\* the text on a page
BackendText(format, source, page_num) == "text of " \o source \o " " \o ToString(page_num)

\* the texts the backend may answer for a page
BackendTexts(format, source, page_num) ==
    IF format = "json" THEN {JsonAnswer, ProseAnswer}
    ELSE {BackendText(format, source, page_num)}

\* json.dumps(json.loads(text), indent=2) where text parses, for the answers of
\* the model; no other text of the model is a JSON document: every other one
\* starts with a letter that starts no JSON value ("P", "E", "n" not followed by
\* "ull") or is empty
JsonDocuments == {JsonAnswer}
JsonPretty(text) == IF text = JsonAnswer THEN "{\n  \"a\": 1\n}" ELSE text

\* PostProcess, were the text returned as the backend gave it
PostProcessRaw(format, text) == text

\* the "if format_type == 'json'" tail of process_image
PostProcess(format, text) ==
    IF format = "json" /\ text \in JsonDocuments THEN JsonPretty(text) ELSE text

\* how a request to the backend can end
Outcomes(provider) ==
    IF provider = "gemini"
    THEN {"ok", "ok_no_usage", "http_error", "bad_shape"}
    ELSE {"ok", "http_error", "bad_shape"}

\* the usage the hosted backends report for a request
ReportedUsage(prompt, text) ==
    [prompt_tokens |-> 100 + EstimateTokens(prompt),
     completion_tokens |-> 1 + EstimateTokens(text)]

(***************************************************************************)
(* The state.                                                              *)
(***************************************************************************)
VARIABLES
    api_provider,           \* OCRProcessor.api_provider
    model_name,             \* OCRProcessor.model_name
    max_workers,            \* OCRProcessor.max_workers
    total_input_tokens,     \* OCRProcessor.total_input_tokens
    total_output_tokens,    \* OCRProcessor.total_output_tokens
    total_cost,             \* OCRProcessor.total_cost, in nano-dollars
    progress,               \* the arguments of the latest call of progress_callback
    image_paths,            \* process_batch: the list of submitted paths
    format_type,            \* process_batch: format_type
    preprocess,             \* process_batch: preprocess
    batch,                  \* process_batch: "idle", "running" or "returned"
    results,                \* process_batch: results
    errors,                 \* process_batch: errors
    completed,              \* process_batch: completed
    collected,              \* process_batch: the futures as_completed has yielded
    statistics,             \* process_batch: the statistics it returns
    job,                    \* the thread of each submitted path, by index in image_paths
    files,                  \* the files on disk
    page_count,             \* doc.page_count of the PDF
    api_key,                \* OCRProcessor.api_key
    init_error,             \* the ValueError __init__ raised ("" when none)
    custom_prompt,          \* process_batch, process_image: custom_prompt
    language,               \* process_batch, process_image: language
    accounted               \* the usage of every backend call that reached the counters
                            \* since the counters were reset

config == <<api_provider, model_name, max_workers, image_paths, format_type, preprocess, page_count,
            api_key, init_error, custom_prompt, language>>
ledger == <<total_input_tokens, total_output_tokens, total_cost>>
coordinator == <<batch, results, errors, completed, collected, statistics>>
vars == <<config, ledger, coordinator, progress, job, files, accounted>>

Jobs == DOMAIN image_paths

DefaultModel(provider) ==
    CASE provider = "openai" -> "gpt-4o-mini"
      [] provider = "gemini" -> "gemini-1.5-flash"
      [] OTHER -> "llama3.2-vision:11b"

\* the models a caller may name: one the table prices under two keys, one it
\* prices under one key, and one it has no key for
Models(provider) ==
    CASE provider = "openai" -> {"gpt-4o-mini", "gpt-4-turbo-preview", "o1-mini"}
      [] provider = "gemini" -> {"gemini-1.5-flash", "gemini-1.5-pro-latest", "gemini-pro-vision"}
      [] OTHER -> {"llama3.2-vision:11b"}

NoKey == ""         \* api_key = None (or the empty string): both are falsy
ApiKeys == {NoKey, "sk-key"}

\* ValidateKey, were only OpenAI to need a key
ValidateKeyOpenAIOnly(provider, key) ==
    IF provider = "openai" /\ key = NoKey
    THEN "API key is required for " \o provider
    ELSE ""

\* "Validate API key for external providers": the message of the ValueError
\* __init__ raises ("" when it raises none)
ValidateKey(provider, key) ==
    IF provider \in {"openai", "gemini"} /\ key = NoKey
    THEN "API key is required for " \o provider
    ELSE ""

NoFuture == [raised |-> FALSE, value |-> ""]

ZeroUsage == [input |-> 0, output |-> 0, cost |-> 0]

Queued ==
    [pc |-> "queued", idx |-> 0, responses |-> << >>, reg |-> ZeroUsage,
     input_tokens |-> 0, output_tokens |-> 0, text |-> "", outcome |-> "ok",
     prompt |-> "", thresh |-> NoThreshold,
     future |-> NoFuture, failed |-> FALSE]

NoProgress == [completed |-> 0, total |-> 0, message |-> "", from |-> "nobody"]

\* the lists of paths of at most n paths, at most one of them the PDF
PathLists(n) ==
    {paths \in UNION {[1..k -> SourcePaths] : k \in 1..n} :
        Cardinality({i \in DOMAIN paths : paths[i] = PdfFile}) <= 1}

\* the caller's choice of model and key, and of the prompt and language of the
\* run, taken from the sets given
Chosen(all_models, keys, prompts, languages) ==
    /\ api_provider \in Providers
    /\ model_name \in IF all_models THEN Models(api_provider) ELSE {DefaultModel(api_provider)}
    /\ api_key \in keys
    /\ custom_prompt \in prompts
    /\ language \in languages

\* a processor as __init__ leaves it, the files as the caller left them, and
\* the arguments of the run, taken from the sets given
Constructed(lists, formats, toggles, pages, pools) ==
    /\ init_error = ValidateKey(api_provider, api_key)
    /\ max_workers \in pools
    /\ total_input_tokens = 0
    /\ total_output_tokens = 0
    /\ total_cost = 0
    /\ progress = NoProgress
    /\ image_paths \in lists
    /\ format_type \in formats
    /\ preprocess \in toggles
    /\ batch = "idle"
    /\ results = << >>
    /\ errors = << >>
    /\ completed = 0
    /\ collected = {}
    /\ statistics = [total |-> 0, successful |-> 0, failed |-> 0]
    /\ job = [j \in DOMAIN image_paths |-> Queued]
    /\ files = Range(image_paths)
    /\ page_count \in IF PdfFile \in Range(image_paths) THEN pages ELSE {1}
    /\ accounted = ZeroUsage

\* a batch: up to MaxJobs paths and up to MaxWorkers threads
Init ==
    /\ Chosen(FALSE, {"sk-key"}, {NoPrompt}, {DefaultLanguage})
    /\ Constructed(PathLists(MaxJobs), {"markdown"}, {TRUE}, {MaxPages}, 1..MaxWorkers)

\* a single file, of every kind, format and setting, a processor of every
\* model, with and without a key
InitSingle ==
    /\ Chosen(TRUE, ApiKeys, Prompts, Languages)
    /\ Constructed(PathLists(1) \cup {<<TempNamedFile>>}, Formats, BOOLEAN, 1..MaxPages, {1})

(***************************************************************************)
(* The usage interface (get_usage_stats, reset_usage_stats), called by     *)
(* the application before and after a run, never while process_batch runs: *)
(* the script that calls them is the one blocked in process_batch.         *)
(***************************************************************************)
\* get_usage_stats: what it returns in the current state
get_usage_stats == UsageStats(total_input_tokens, total_output_tokens, total_cost)

\* ResetCounters, were reset_usage_stats to leave total_cost as it is
ResetCountersKeepsCost == [input |-> 0, output |-> 0, cost |-> total_cost]

\* reset_usage_stats: the counters after it
ResetCounters == [input |-> 0, output |-> 0, cost |-> 0]

ResetUsageStats ==
    /\ init_error = ""
    /\ batch /= "running"
    /\ total_input_tokens' = ResetCounters.input
    /\ total_output_tokens' = ResetCounters.output
    /\ total_cost' = ResetCounters.cost
    /\ accounted' = ZeroUsage
    /\ UNCHANGED <<config, coordinator, progress, job, files>>

(***************************************************************************)
(* process_batch: submitting.                                              *)
(***************************************************************************)
ProcessBatch ==
    /\ init_error = ""
    /\ batch = "idle"
    /\ batch' = "running"
    /\ results' = << >>
    /\ errors' = << >>
    /\ completed' = 0
    /\ UNCHANGED <<config, ledger, collected, statistics, progress, job, files, accounted>>

\* the jobs a thread of the pool is running
Running == {j \in Jobs : job[j].pc \notin {"queued", "done"}}

\* CanStart, were the pool to start a queued job whatever the number of busy threads
CanStartUnbounded(j) ==
    /\ batch = "running"
    /\ job[j].pc = "queued"
    /\ \A i \in Jobs : i < j => job[i].pc /= "queued"

\* CanStart, were the pool to stop starting jobs once a job has failed
CanStartUnlessFailed(j) ==
    /\ batch = "running"
    /\ job[j].pc = "queued"
    /\ \A i \in Jobs : i < j => job[i].pc /= "queued"
    /\ Cardinality({i \in Jobs : job[i].pc \notin {"queued", "done"}}) < max_workers
    /\ \A i \in Jobs : ~job[i].failed

\* ThreadPoolExecutor(max_workers): a queued job starts, in the order of
\* submission, when fewer than max_workers threads are busy
CanStart(j) ==
    /\ batch = "running"
    /\ job[j].pc = "queued"
    /\ \A i \in Jobs : i < j => job[i].pc /= "queued"
    /\ Cardinality(Running) < max_workers

(***************************************************************************)
(* process_image: one job, in the thread that runs it.                     *)
(***************************************************************************)
\* return <value>
Returned(value) == [raised |-> FALSE, value |-> value]

\* JobBoundary, were process_image to let the exception out
JobBoundaryRaises(e) == [raised |-> TRUE, value |-> e]

\* except Exception as e: return f"Error processing image: {str(e)}"
JobBoundary(e) == [raised |-> FALSE, value |-> "Error processing image: " \o e]

\* process_image is over: with a text, or (failed) with an exception it caught
Done(future) == [Queued EXCEPT !.pc = "done", !.future = future]
Failed(e) == [Queued EXCEPT !.pc = "done", !.future = JobBoundary(e), !.failed = TRUE]

\* Raised, were the blocks of the pages already answered returned with the
\* message
RaisedKeepsPages(j, e) ==
    [Queued EXCEPT !.pc = "done",
                   !.future = Returned(Join("\n", Append(job[j].responses,
                                                         "Error processing image: " \o e))),
                   !.failed = TRUE]

\* an exception raised while job j is at a page or image: it leaves the page
\* loop and the try block, and responses with them
Raised(j, e) == Failed(e)

\* self.progress_callback(idx, total_pages, ...) of the page loop
PageProgress(idx, total_pages) ==
    [completed |-> idx, total |-> total_pages,
     message |-> "Processando página " \o ToString(idx + 1) \o " de " \o ToString(total_pages),
     from |-> "worker"]

\* _pdf_to_images: the thread renders the pages in order; `made` pages are
\* saved when it ends, all of them unless the document or a page is corrupt
PdfToImages(j) ==
    /\ CanStart(j)
    /\ IsPdf(image_paths[j])
    /\ \E made \in 0..page_count :
         /\ files' = files \cup {PageFile(image_paths[j], k) : k \in 0..(made - 1)}
         /\ job' = [job EXCEPT ![j] =
                IF made = page_count
                THEN [Queued EXCEPT !.pc = "page"]
                ELSE Failed("Could not convert PDF to images: cannot render page "
                             \o ToString(made))]
    /\ UNCHANGED <<config, ledger, coordinator, progress, accounted>>

\* the file a page or image is read from, and its number
SourceOf(j) == IF IsPdf(image_paths[j]) THEN PageFile(image_paths[j], job[j].idx) ELSE image_paths[j]

\* _preprocess_image, then _encode_image: the files after them, the path that
\* is sent, and the error that ends them ("" when none does).  decodable: the
\* bytes of the source are an image.
Prepare(fs, source, decodable) ==
    LET readable == source \in fs /\ decodable
        sent == IF preprocess THEN PreprocessedFile(source) ELSE source
        after == IF preprocess /\ readable THEN fs \cup {sent} ELSE fs
    IN  [files |-> after,
         sent |-> sent,
         thresh |-> IF preprocess /\ readable THEN Threshold(language) ELSE NoThreshold,
         error |-> IF preprocess /\ ~readable THEN "Could not read image at " \o source
                   ELSE IF sent \notin after
                        THEN "[Errno 2] No such file or directory: '" \o sent \o "'"
                   ELSE ""]

\* CallOpenaiVision, were the tokens estimated from the prompt and the text
\* instead of read from the response
CallOpenaiVisionEstimates(prompt, text, outcome) ==
    [error |-> IF outcome = "http_error" THEN "500 Server Error" ELSE "",
     text |-> text,
     input_tokens |-> EstimateTokens(prompt),
     output_tokens |-> EstimateTokens(text)]

\* _call_openai_vision up to the counters: usage.get("prompt_tokens", 0) and
\* usage.get("completion_tokens", 0) of the response
CallOpenaiVision(prompt, text, outcome) ==
    [error |-> IF outcome = "http_error" THEN "500 Server Error" ELSE "",
     text |-> text,
     input_tokens |-> ReportedUsage(prompt, text).prompt_tokens,
     output_tokens |-> ReportedUsage(prompt, text).completion_tokens]

\* _call_gemini_vision up to the counters: the counts of usageMetadata, or the
\* estimates when the response has none
CallGeminiVision(prompt, sent, fs, text, outcome) ==
    [error |-> IF outcome = "http_error" THEN "500 Server Error"
               ELSE IF outcome = "bad_shape" THEN "'candidates'" ELSE "",
     text |-> text,
     input_tokens |-> IF outcome = "ok" THEN ReportedUsage(prompt, text).prompt_tokens
                      ELSE EstimateTokens(prompt)
                             + EstimateImageTokens("gemini", sent \in fs, ImageShape),
     output_tokens |-> IF outcome = "ok" THEN ReportedUsage(prompt, text).completion_tokens
                       ELSE EstimateTokens(text)]

\* the Ollama branch of _call_vision_api up to the counters
CallOllama(provider, prompt, sent, fs, text, outcome) ==
    LET result_text == IF outcome = "bad_shape" THEN "" ELSE text
    IN  [error |-> IF outcome = "http_error" THEN "500 Server Error" ELSE "",
         text |-> result_text,
         input_tokens |-> EstimateTokens(prompt)
                            + EstimateImageTokens(provider, sent \in fs, ImageShape),
         output_tokens |-> EstimateTokens(result_text)]

\* _call_vision_api up to the counters: the text and the token counts of
\* the request, and the error that ends it before any counter ("" when none)
Request(provider, prompt, sent, fs, text, outcome) ==
    CASE provider = "openai" -> CallOpenaiVision(prompt, text, outcome)
      [] provider = "gemini" -> CallGeminiVision(prompt, sent, fs, text, outcome)
      [] OTHER -> CallOllama(provider, prompt, sent, fs, text, outcome)

\* one page of a PDF, or an image: the progress callback (PDF), preprocessing,
\* encoding and the request, up to the read of the counters
Submit(j, decodable, text, outcome) ==
    LET path == image_paths[j]
        source == SourceOf(j)
        ready == Prepare(files, source, decodable)
        prompt == Prompt(format_type, custom_prompt, language)
        req == Request(api_provider, prompt, ready.sent, ready.files, text, outcome)
    IN  /\ progress' = IF IsPdf(path) THEN PageProgress(job[j].idx, page_count) ELSE progress
        /\ files' = ready.files
        /\ IF ready.error /= ""
           THEN /\ job' = [job EXCEPT ![j] = Raised(j, ready.error)]
                /\ UNCHANGED accounted
           ELSE IF req.error /= ""
           THEN /\ job' = [job EXCEPT ![j] = Raised(j, req.error)]
                /\ UNCHANGED accounted
           ELSE /\ job' = [job EXCEPT ![j] =
                       [@ EXCEPT !.pc = "account",
                                 !.reg = [input |-> total_input_tokens,
                                          output |-> total_output_tokens,
                                          cost |-> total_cost],
                                 !.input_tokens = req.input_tokens,
                                 !.output_tokens = req.output_tokens,
                                 !.text = req.text, !.outcome = outcome,
                                 !.prompt = prompt, !.thresh = ready.thresh]]
                /\ accounted' =
                       [input |-> accounted.input + req.input_tokens,
                        output |-> accounted.output + req.output_tokens,
                        cost |-> accounted.cost
                                  + CalculateCost(api_provider, model_name,
                                                  req.input_tokens, req.output_tokens)]
        /\ UNCHANGED <<config, ledger, coordinator>>

\* a page of the page loop
ProcessPage(j) ==
    /\ job[j].pc = "page"
    /\ \E text \in BackendTexts(format_type, image_paths[j], job[j].idx) :
         \E outcome \in Outcomes(api_provider) : Submit(j, TRUE, text, outcome)

\* an image: the thread starts with it
ProcessImage(j) ==
    /\ CanStart(j)
    /\ ~IsPdf(image_paths[j])
    /\ \E decodable \in (IF preprocess THEN BOOLEAN ELSE {TRUE}) :
         \E text \in BackendTexts(format_type, image_paths[j], 0) :
             \E outcome \in Outcomes(api_provider) : Submit(j, decodable, text, outcome)

\* os.remove(f): the files after it, and the error it raises ("" when none)
Remove(fs, f) ==
    [files |-> fs \ {f},
     error |-> IF f \in fs THEN "" ELSE "[Errno 2] No such file or directory: '" \o f \o "'"]

\* CleanupPage, were the page loop to remove the preprocessed image only
CleanupPageKeepsRaster(fs, page_file, preprocessed_path) ==
    IF preprocess /\ EndsWith(preprocessed_path, "_preprocessed.jpg")
    THEN Remove(fs, preprocessed_path)
    ELSE [files |-> fs, error |-> ""]

\* "Clean up temporary files" of the page loop
CleanupPage(fs, page_file, preprocessed_path) ==
    LET first == IF preprocess /\ EndsWith(preprocessed_path, "_preprocessed.jpg")
                 THEN Remove(fs, preprocessed_path)
                 ELSE [files |-> fs, error |-> ""]
    IN  IF first.error /= "" THEN first
        ELSE IF EndsWith(page_file, ".png") THEN Remove(first.files, page_file)
        ELSE first

\* "Clean up temporary files" of an image
CleanupImage(fs, processed_path) ==
    IF EndsWith(processed_path, "_preprocessed.jpg") \/ EndsWith(processed_path, "_temp.jpg")
    THEN Remove(fs, processed_path)
    ELSE [files |-> fs, error |-> ""]

\* PageBlock, were the pages numbered from 0
PageBlockFromZero(idx, res) == "Page " \o ToString(idx) \o ":\n" \o res

\* responses.append(f"Page {idx + 1}:\n{res}")
PageBlock(idx, res) == "Page " \o ToString(idx + 1) \o ":\n" \o res

\* AfterCall, were the loop to go on to the next page without the response of
\* this one
AfterCallWithoutResponse(j) ==
    LET path == image_paths[j]
        source == SourceOf(j)
        sent == IF preprocess THEN PreprocessedFile(source) ELSE source
        responses == Append(job[j].responses, PageBlock(job[j].idx, job[j].text))
        clean == IF IsPdf(path) THEN CleanupPage(files, source, sent)
                 ELSE CleanupImage(files, sent)
    IN  [files |-> clean.files,
         job |-> IF clean.error /= "" THEN Failed(clean.error)
                 ELSE IF ~IsPdf(path)
                      THEN Done(Returned(PostProcess(format_type, job[j].text)))
                 ELSE IF job[j].idx + 1 < page_count
                      THEN [Queued EXCEPT !.pc = "page", !.idx = job[j].idx + 1]
                 ELSE Done(Returned(PostProcess(format_type, Join("\n", responses))))]

\* process_image after _call_vision_api returned job[j].text: the files and the
\* thread after it
AfterCall(j) ==
    LET path == image_paths[j]
        source == SourceOf(j)
        sent == IF preprocess THEN PreprocessedFile(source) ELSE source
        responses == Append(job[j].responses, PageBlock(job[j].idx, job[j].text))
        clean == IF IsPdf(path) THEN CleanupPage(files, source, sent)
                 ELSE CleanupImage(files, sent)
    IN  [files |-> clean.files,
         job |-> IF clean.error /= "" THEN Failed(clean.error)
                 ELSE IF ~IsPdf(path)
                      THEN Done(Returned(PostProcess(format_type, job[j].text)))
                 ELSE IF job[j].idx + 1 < page_count
                      THEN [Queued EXCEPT !.pc = "page", !.idx = job[j].idx + 1,
                                          !.responses = responses]
                 ELSE Done(Returned(PostProcess(format_type, Join("\n", responses))))]

\* self.total_input_tokens += input_tokens, self.total_output_tokens +=
\* output_tokens and (hosted backends) self.total_cost += self._calculate_cost(
\* input_tokens, output_tokens): the writes; then the text is taken out of the
\* response and process_image goes on
\* Charge, were the local backend's calls priced like the hosted ones
ChargeLocalToo(provider, model, cost, input_tokens, output_tokens) ==
    cost + input_tokens * DefaultPricing(provider).input
         + output_tokens * DefaultPricing(provider).output

\* total_cost after a call: self.total_cost += self._calculate_cost(...) in the
\* hosted backends' calls, and no statement in Ollama's ("Ollama is free")
Charge(provider, model, cost, input_tokens, output_tokens) ==
    IF provider \in {"openai", "gemini"}
    THEN cost + CalculateCost(provider, model, input_tokens, output_tokens)
    ELSE cost

Account(j) ==
    /\ job[j].pc = "account"
    /\ total_input_tokens' = job[j].reg.input + job[j].input_tokens
    /\ total_output_tokens' = job[j].reg.output + job[j].output_tokens
    /\ total_cost' = Charge(api_provider, model_name, job[j].reg.cost,
                            job[j].input_tokens, job[j].output_tokens)
    /\ IF api_provider = "openai" /\ job[j].outcome = "bad_shape"
       THEN /\ job' = [job EXCEPT ![j] = Raised(j, "'choices'")]
            /\ UNCHANGED files
       ELSE /\ job' = [job EXCEPT ![j] = AfterCall(j).job]
            /\ files' = AfterCall(j).files
    /\ UNCHANGED <<config, coordinator, progress, accounted>>

(***************************************************************************)
(* process_batch: collecting.                                              *)
(***************************************************************************)
\* the body of "for future in as_completed(...)": try results[...] =
\* future.result(), except errors[...] = str(e)
Record(res, errs, path, future) ==
    IF future.raised
    THEN [results |-> res, errors |-> (path :> future.value) @@ errs]
    ELSE [results |-> (path :> future.value) @@ res, errors |-> errs]

\* self.progress_callback(completed, total, ...) of the coordinator
BatchProgress(done, total) ==
    [completed |-> done, total |-> total,
     message |-> "Processando arquivo " \o ToString(done) \o " de " \o ToString(total),
     from |-> "coordinator"]

Collect(j) ==
    /\ batch = "running"
    /\ job[j].pc = "done"
    /\ j \notin collected
    /\ collected' = collected \cup {j}
    /\ results' = Record(results, errors, image_paths[j], job[j].future).results
    /\ errors' = Record(results, errors, image_paths[j], job[j].future).errors
    /\ completed' = completed + 1
    /\ progress' = BatchProgress(completed + 1, Len(image_paths))
    /\ UNCHANGED <<config, ledger, batch, statistics, job, files, accounted>>

\* AllCollected, were process_batch to return at the first completed future
AllCollectedAtFirst == collected /= {}

\* the executor's "with" block ends when every future is done, and as_completed
\* when it has yielded every future
AllCollected == collected = Jobs

ReturnBatch ==
    /\ batch = "running"
    /\ AllCollected
    /\ batch' = "returned"
    /\ statistics' = [total |-> Len(image_paths),
                      successful |-> Cardinality(DOMAIN results),
                      failed |-> Cardinality(DOMAIN errors)]
    /\ UNCHANGED <<config, ledger, results, errors, completed, collected, progress,
                   job, files, accounted>>

Next ==
    \/ ResetUsageStats
    \/ ProcessBatch
    \/ \E j \in Jobs : PdfToImages(j)
    \/ \E j \in Jobs : ProcessPage(j)
    \/ \E j \in Jobs : ProcessImage(j)
    \/ \E j \in Jobs : Account(j)
    \/ \E j \in Jobs : Collect(j)
    \/ ReturnBatch

Spec == Init /\ [][Next]_vars

SpecSingle == InitSingle /\ [][Next]_vars

\* the steps of a run: those of the threads and of the coordinator
RunStep ==
    \/ \E j \in Jobs : PdfToImages(j)
    \/ \E j \in Jobs : ProcessPage(j)
    \/ \E j \in Jobs : ProcessImage(j)
    \/ \E j \in Jobs : Account(j)
    \/ \E j \in Jobs : Collect(j)
    \/ ReturnBatch

\* the batches of one or two paths
InitFair == Init /\ Len(image_paths) <= 2

\* a batch whose threads are scheduled and whose backend calls return or fail:
\* a run that can take a step does not stop for ever
SpecFair == InitFair /\ [][Next]_vars /\ WF_vars(RunStep)

(***************************************************************************)
(* Properties.                                                             *)
(***************************************************************************)
Keys(dict) == DOMAIN dict

\* the path of job j is submitted once
Once(j) == \A i \in Jobs : image_paths[i] = image_paths[j] => i = j

\* C1: when process_batch has returned, no path is a key of both results and
\* errors, and the keys of results and errors together are exactly the
\* submitted paths.
C1_ResultsAndErrorsPartitionTheJobs ==
    batch = "returned" =>
        /\ Keys(results) \cap Keys(errors) = {}
        /\ Keys(results) \cup Keys(errors) = Range(image_paths)

\* C1 happens: a batch has returned in which the same path was submitted twice
\* and one of the two jobs failed, the other not.
C1_Witness ==
    /\ batch = "returned"
    /\ \E i, j \in Jobs :
         /\ i /= j
         /\ image_paths[i] = image_paths[j]
         /\ job[i].failed
         /\ ~job[j].failed

\* C2: when process_batch has returned, the path of every job that failed is a
\* key of errors and not of results, and statistics counts the failed jobs in
\* failed and the others in successful.
C2_FailedJobsAreInErrors ==
    batch = "returned" =>
        /\ \A j \in Jobs : job[j].failed =>
               /\ image_paths[j] \in Keys(errors)
               /\ image_paths[j] \notin Keys(results)
        /\ (\A j \in Jobs : Once(j)) =>
               /\ statistics.failed = Cardinality({j \in Jobs : job[j].failed})
               /\ statistics.successful = Cardinality({j \in Jobs : ~job[j].failed})

\* C3: no failure of a job stops the run or another job: while the batch runs
\* some thread or the coordinator can always take a step, whichever jobs have
\* failed, and when process_batch has returned every job has run to its end, has
\* been collected and has an entry under its path, which is what the job itself
\* returned when its path was submitted once.
C3_FailureIsIsolated ==
    /\ batch = "running" => ENABLED RunStep
    /\ batch = "returned" =>
          \A j \in Jobs :
              /\ job[j].pc = "done"
              /\ j \in collected
              /\ image_paths[j] \in Keys(results) \cup Keys(errors)
              /\ (Once(j) /\ image_paths[j] \in Keys(results))
                     => results[image_paths[j]] = job[j].future.value

\* C3 happens: a batch has returned in which the first job failed and a later
\* one, started after it or running beside it, did not.
C3_Witness ==
    /\ batch = "returned"
    /\ Len(image_paths) >= 2
    /\ job[1].failed
    /\ \E j \in Jobs : j > 1 /\ ~job[j].failed /\ image_paths[j] /= image_paths[1]

\* C4: in every state the jobs that have started and not finished are at most
\* max_workers.
C4_AtMostMaxWorkersRunning == Cardinality(Running) <= max_workers

\* C4 happens: every thread of the pool is busy and a job is waiting.
C4_Witness ==
    /\ Cardinality(Running) = max_workers
    /\ \E j \in Jobs : job[j].pc = "queued"
    /\ batch = "running"

\* C5: when process_batch has returned, each of the three usage counters is the
\* sum of the usage of every backend call that was accounted since the
\* counters were reset.
C5_NoIncrementIsLost ==
    batch = "returned" =>
        /\ total_input_tokens = accounted.input
        /\ total_output_tokens = accounted.output
        /\ total_cost = accounted.cost

\* C6: every call of the progress callback during a batch of N jobs has total =
\* N and a completed count that is not below that of the call before it, and
\* its completed count is N exactly when all N jobs have been collected.
C6_ProgressCountsJobs ==
    [][progress' /= progress =>
          /\ progress'.total = Len(image_paths)
          /\ progress'.completed >= progress.completed
          /\ (progress'.completed = progress'.total <=> collected' = Jobs)]_vars

\* C7: when a job has returned, failed or not, none of the temporary files of
\* its path is on disk.
C7_TemporaryFilesDeletedOnEveryExit ==
    \A j \in Jobs :
        (job[j].pc = "done" /\ Once(j)) => files \cap TempFilesOf(image_paths[j]) = {}

\* C8: when the job of a PDF has returned without failing, none of the page
\* files and none of the preprocessed images of its path is on disk.
C8_NoTemporaryFilesAfterSuccess ==
    \A j \in Jobs :
        (job[j].pc = "done" /\ ~job[j].failed /\ IsPdf(image_paths[j]) /\ Once(j))
            => files \cap TempFilesOf(image_paths[j]) = {}

\* C8 happens: a PDF of two pages or more was processed with preprocessing and
\* its job returned without failing.
C8_Witness ==
    \E j \in Jobs :
        /\ job[j].pc = "done"
        /\ ~job[j].failed
        /\ IsPdf(image_paths[j])
        /\ page_count >= 2
        /\ preprocess

\* what _call_vision_api can return for a page: the backend's text, or (Ollama)
\* the empty text when the response has no "response"
AnswersFor(path, page_num) ==
    IF api_provider \in {"openai", "gemini"}
    THEN BackendTexts(format_type, path, page_num)
    ELSE BackendTexts(format_type, path, page_num) \cup {""}

\* C9: the text a PDF's job returns without failing is the blocks of its pages
\* joined by newlines, one block for each page 1..N in ascending order, block k
\* being "Page k:", a newline and the backend's text for page k.
C9_PagesInOrder ==
    \A j \in Jobs :
        (job[j].pc = "done" /\ ~job[j].failed /\ IsPdf(image_paths[j]) /\ Once(j))
            => \E answers \in [1..page_count -> UNION {AnswersFor(image_paths[j], k)
                                                        : k \in 0..(page_count - 1)}] :
                  /\ \A k \in 1..page_count : answers[k] \in AnswersFor(image_paths[j], k - 1)
                  /\ job[j].future.value =
                        Join("\n", [k \in 1..page_count |->
                                       "Page " \o ToString(k) \o ":\n" \o answers[k]])

\* C9 happens: a PDF of two pages or more was processed in the json format and
\* its job returned without failing.
C9_Witness ==
    \E j \in Jobs :
        /\ job[j].pc = "done"
        /\ ~job[j].failed
        /\ IsPdf(image_paths[j])
        /\ page_count >= 2
        /\ format_type = "json"

\* C10: in the state reset_usage_stats leaves, get_usage_stats returns 0 for the
\* input tokens, the output tokens, the total tokens and both costs.
C10_ResetThenStatsAreZero ==
    [][ResetUsageStats =>
          get_usage_stats' = [input_tokens |-> 0, output_tokens |-> 0, total_tokens |-> 0,
                              estimated_cost_usd |-> 0, estimated_cost_brl |-> 0]]_vars

\* C10 happens: the counters were reset after a run in which a backend call was
\* accounted, and get_usage_stats returns zeros.
C10_Witness ==
    /\ batch = "returned"
    /\ \E j \in Jobs : ~job[j].failed
    /\ accounted = ZeroUsage
    /\ get_usage_stats.total_tokens = 0
    /\ get_usage_stats.estimated_cost_brl = 0

\* C11: the counters are reset by reset_usage_stats only, which is never called
\* while a job is running, and no other step lowers the input tokens, the
\* output tokens or the cost.
C11_LedgerOnlyGrowsBetweenResets ==
    [][/\ ResetUsageStats => Running = {}
       /\ ~ResetUsageStats =>
              /\ total_input_tokens' >= total_input_tokens
              /\ total_output_tokens' >= total_output_tokens
              /\ total_cost' >= total_cost]_vars

\* C12: in every state the input and output token counters are natural numbers
\* and the cost is not negative, and the cost of a processor of the local
\* backend (Ollama) is 0 whatever its token counters are.
C12_CountersNonNegativeAndLocalIsFree ==
    /\ total_input_tokens \in Nat
    /\ total_output_tokens \in Nat
    /\ total_cost \in Nat
    /\ api_provider = "ollama" => total_cost = 0

\* C12 happens: a batch of a processor of the local backend has returned, with
\* calls accounted by two jobs and tokens counted.
C12_Witness ==
    /\ api_provider = "ollama"
    /\ batch = "returned"
    /\ Cardinality({j \in Jobs : ~job[j].failed}) >= 2
    /\ total_input_tokens > 0
    /\ total_output_tokens > 0
    /\ total_cost = 0

\* C13: the job of an image in the json format whose backend call returned a
\* text returns, without failing, the document pretty-printed with an indent of
\* 2 when the text is the JSON document {"a":1}, and the text as it is when the
\* text is no JSON document.
C13_JsonIsPrettyPrintedOrReturnedRaw ==
    [][\A j \in Jobs :
          (/\ ~IsPdf(image_paths[j])
           /\ format_type = "json"
           /\ job[j].pc = "account"
           /\ job'[j].pc = "done"
           /\ ~(api_provider = "openai" /\ job[j].outcome = "bad_shape"))
          => /\ ~job'[j].failed
             /\ ~job'[j].future.raised
             /\ job'[j].future.value =
                    IF job[j].text = "{\"a\":1}" THEN "{\n  \"a\": 1\n}" ELSE job[j].text]_vars

\* C13 happens: the job of an image in the json format has returned the
\* pretty-printed document.
C13_Witness ==
    \E j \in Jobs :
        /\ ~IsPdf(image_paths[j])
        /\ format_type = "json"
        /\ job[j].pc = "done"
        /\ ~job[j].failed
        /\ job[j].future.value = "{\n  \"a\": 1\n}"

\* the formats process_image has a template for
Templated == {"markdown", "text", "json", "structured", "key_value", "table"}

\* C14 as amended: the prompt sent to the backend with a page or an image is the
\* caller's custom prompt when that has a character other than a blank, in every
\* format, and else the template of the format, which is the template of
\* "text" for a format that has none.
C14_CustomPromptUnlessBlank ==
    [][\A j \in Jobs :
          (job'[j].pc = "account" /\ job[j].pc /= "account")
          => job'[j].prompt =
                 IF \E i \in 1..Len(custom_prompt) : SubSeq(custom_prompt, i, i) /= " "
                 THEN custom_prompt
                 ELSE IF format_type \in Templated
                      THEN PromptTemplate(format_type, language)
                      ELSE PromptTemplate("text", language)]_vars

\* C14 happens: the second page of a PDF was sent in the json format with the
\* caller's prompt.
C14_Witness ==
    \E j \in Jobs :
        /\ IsPdf(image_paths[j])
        /\ format_type = "json"
        /\ custom_prompt = OwnPrompt
        /\ job[j].pc = "account"
        /\ job[j].idx = 1
        /\ job[j].prompt = OwnPrompt

\* C14: the prompt sent to the backend with a page or an image is the caller's
\* custom prompt when one is given and is not the empty string, and else the
\* template of the format.
C14_CustomPromptWhenNonEmpty ==
    [][\A j \in Jobs :
          (job'[j].pc = "account" /\ job[j].pc /= "account")
          => job'[j].prompt =
                 IF custom_prompt /= "" THEN custom_prompt
                 ELSE PromptTemplate(format_type, language)]_vars

\* C15: a processor of a hosted backend (OpenAI, Gemini) constructed without a
\* key has raised the configuration error in __init__, and no batch is started,
\* no job is taken up and no call is accounted by it; a processor of the local
\* backend has raised no error, with or without a key.
C15_HostedBackendNeedsKey ==
    /\ (api_provider \in {"openai", "gemini"} /\ api_key = "") =>
           /\ init_error = "API key is required for " \o api_provider
           /\ batch = "idle"
           /\ \A j \in Jobs : job[j].pc = "queued"
           /\ accounted = ZeroUsage
           /\ files = Range(image_paths)
    /\ api_provider = "ollama" => init_error = ""

\* C15 happens: a processor of Gemini was constructed without a key, and
\* __init__ raised.
C15_Witness ==
    /\ api_provider = "gemini"
    /\ api_key = NoKey
    /\ init_error /= ""
    /\ ~ENABLED ProcessBatch

\* C16: process_image never raises: a job that is over has returned a value, not
\* raised, whatever failed in it, and the value is the message "Error processing
\* image: ..." exactly when something failed and the extracted text otherwise.
C16_ProcessImageNeverRaises ==
    \A j \in Jobs :
        job[j].pc = "done" =>
            /\ ~job[j].future.raised
            /\ job[j].failed <=>
                   /\ Len(job[j].future.value) >= 24
                   /\ SubSeq(job[j].future.value, 1, 24) = "Error processing image: "

\* C16 happens: the job of a PDF is over after a failure (of the rendering of a
\* page, of the backend or of the shape of its response).
C16_Witness ==
    \E j \in Jobs :
        /\ IsPdf(image_paths[j])
        /\ job[j].pc = "done"
        /\ job[j].failed
        /\ ~job[j].future.raised

\* C17: the binarization of a preprocessed page or image is adaptive local
\* thresholding with window 11 and constant 2, inverted, when the language hint
\* names Japanese or Chinese (by name or by code), and Otsu's global
\* thresholding, inverted, for every other hint.
C17_ThresholdingFollowsLanguage ==
    [][\A j \in Jobs :
          (preprocess /\ job'[j].pc = "account" /\ job[j].pc /= "account")
          => job'[j].thresh =
                 IF language \in {"Japanese", "zh", "ja"}
                 THEN [method |-> "adaptive_gaussian", block_size |-> 11, C |-> 2,
                       inverted |-> TRUE]
                 ELSE [method |-> "otsu", block_size |-> 0, C |-> 0, inverted |-> TRUE]]_vars

\* C18: the cost a call of a hosted backend adds to total_cost is input tokens
\* times input price plus output tokens times output price (per million tokens)
\* of the first entry of the provider's pricing table, in the order of the
\* table, whose key is a substring of the model name, and of the provider's
\* default entry (gpt-4o, gemini-1.5-flash) when no key is.
C18_CostIsOfFirstMatchingEntry ==
    [][\A j \in Jobs :
          (api_provider \in {"openai", "gemini"} /\ job[j].pc = "account"
             /\ job'[j].pc /= "account")
          => LET table == PRICING(api_provider)
                 matches == {i \in DOMAIN table : Contains(model_name, table[i].key)}
                 first == {i \in matches : \A k \in 1..(i - 1) : k \notin matches}
                 prices == IF matches = {}
                           THEN IF api_provider = "openai"
                                THEN {[input |-> 2500, output |-> 10000]}
                                ELSE {[input |-> 75, output |-> 300]}
                           ELSE {[input |-> table[i].input, output |-> table[i].output]
                                   : i \in first}
             IN  \A price \in prices :
                     total_cost' = total_cost + job[j].input_tokens * price.input
                                              + job[j].output_tokens * price.output]_vars

\* C18 happens: a call of gpt-4o-mini, a name two keys of the table are
\* substrings of, was accounted at the prices of the first of them (gpt-4o).
C18_Witness ==
    \E j \in Jobs :
        /\ api_provider = "openai"
        /\ model_name = "gpt-4o-mini"
        /\ job[j].pc = "done"
        /\ ~job[j].failed
        /\ total_cost > 0
        /\ total_cost = total_input_tokens * 2500 + total_output_tokens * 10000

\* C19: a job that has started stays with its thread until it is over (it never
\* goes back to the queue), and its pages are taken one at a time in order:
\* page k + 1 is sent to the backend only when the responses of the pages
\* 1..k have been received, and the loop moves to page k + 1 only from the
\* response of page k.
C19_PagesOfAJobInSequence ==
    [][\A j \in Jobs :
          /\ job[j].pc /= "queued" => job'[j].pc /= "queued"
          /\ (job'[j].pc = "account" /\ job[j].pc /= "account") =>
                 /\ job[j].pc \in {"queued", "page"}
                 /\ job'[j].idx = job[j].idx
                 /\ Len(job[j].responses) = job[j].idx
                 /\ job'[j].responses = job[j].responses
          /\ (job'[j].pc = "page" /\ job[j].pc /= "queued" /\ job'[j] /= job[j]) =>
                 /\ job[j].pc = "account"
                 /\ job'[j].idx = job[j].idx + 1
                 /\ Len(job'[j].responses) = job'[j].idx]_vars

\* C19 happens: the second page of a PDF is with the backend, the response of
\* the first received, while another job runs in another thread.
C19_Witness ==
    \E j, i \in Jobs :
        /\ i /= j
        /\ IsPdf(image_paths[j])
        /\ job[j].pc = "account"
        /\ job[j].idx = 1
        /\ Len(job[j].responses) = 1
        /\ job[i].pc = "account"

\* C20: every call of the progress callback during a batch is made by the
\* coordinator (the loop over as_completed in process_batch), none by a thread
\* of the pool.
C20_CallbackFromCoordinatorOnly == progress.from \in {"nobody", "coordinator"}

\* the temporary files a running job has written and has still to read or to
\* remove: the preprocessed image of the page or image that is with the backend,
\* and the page files of the pages of a PDF from the current one on
TempFilesInUse(j) ==
    (IF job[j].pc = "account" /\ preprocess THEN {PreprocessedFile(SourceOf(j))} ELSE {})
      \cup (IF job[j].pc \in {"page", "account"} /\ IsPdf(image_paths[j])
            THEN {PageFile(image_paths[j], k) : k \in job[j].idx..(page_count - 1)}
            ELSE {})

\* C21: in no state of a batch is a temporary file in use by two jobs: the
\* temporary files a job has written and has still to read or to remove are
\* those of no other job, whatever the list of paths, a list that has the same
\* path twice included.
C21_TemporaryFilesArePrivate ==
    \A i, j \in Jobs : i /= j => TempFilesInUse(i) \cap TempFilesInUse(j) = {}

\* C22: process_batch returns only when every submitted job is over and has
\* been collected, with statistics.total the number of submitted paths; and,
\* the threads being scheduled and every backend call returning or failing,
\* every batch that was started returns.
C22_BatchReturnsAfterAllJobs ==
    /\ [](batch = "returned" =>
            /\ \A j \in Jobs : job[j].pc = "done" /\ j \in collected
            /\ completed = Len(image_paths)
            /\ statistics.total = Len(image_paths))
    /\ (batch = "running" ~> batch = "returned")

\* C22 happens: a batch of two jobs or more, one of them failed, has returned
\* with all of them counted.
C22_Witness ==
    /\ batch = "returned"
    /\ Len(image_paths) >= 2
    /\ statistics.total = Len(image_paths)
    /\ \E j \in Jobs : job[j].failed

\* C23: a call of Gemini whose response has no usage metadata adds to the
\* input tokens the estimate of the prompt (a quarter of its length) plus the
\* figure of the image (258), and to the output tokens the estimate of the
\* response text (a quarter of its length); a call whose response has usage
\* metadata adds exactly the counts of the metadata.
C23_GeminiEstimatesWhenUsageIsAbsent ==
    [][\A j \in Jobs :
          (api_provider = "gemini" /\ job[j].pc = "account" /\ job'[j].pc /= "account")
          => IF job[j].outcome = "ok_no_usage"
             THEN /\ total_input_tokens' =
                        total_input_tokens + (Len(job[j].prompt) \div 4) + 258
                  /\ total_output_tokens' = total_output_tokens + (Len(job[j].text) \div 4)
             ELSE /\ total_input_tokens' = total_input_tokens
                        + ReportedUsage(job[j].prompt, job[j].text).prompt_tokens
                  /\ total_output_tokens' = total_output_tokens
                        + ReportedUsage(job[j].prompt, job[j].text).completion_tokens]_vars

\* C23 happens: the job of an image has returned the text of a Gemini response
\* without usage metadata, and the counters hold the estimates.
C23_Witness ==
    \E j \in Jobs :
        /\ api_provider = "gemini"
        /\ ~IsPdf(image_paths[j])
        /\ job[j].pc = "done"
        /\ ~job[j].failed
        /\ total_input_tokens
             = (Len(Prompt(format_type, custom_prompt, language)) \div 4) + 258
        /\ total_output_tokens > 0

\* C24: a call of OpenAI that returns its text adds to the input tokens and to
\* the output tokens exactly the prompt_tokens and completion_tokens of the
\* usage of the response, and to the cost the cost of those counts.
C24_OpenAIAddsReportedUsage ==
    [][\A j \in Jobs :
          (api_provider = "openai" /\ job[j].pc = "account" /\ job'[j].pc /= "account"
             /\ job[j].outcome = "ok")
          => LET usage == ReportedUsage(job[j].prompt, job[j].text)
             IN  /\ ~job'[j].failed
                 /\ total_input_tokens' = total_input_tokens + usage.prompt_tokens
                 /\ total_output_tokens' = total_output_tokens + usage.completion_tokens
                 /\ total_cost' = total_cost
                        + CalculateCost("openai", model_name, usage.prompt_tokens,
                                        usage.completion_tokens)]_vars

\* C24 happens: both pages of a PDF were answered by OpenAI and the counters
\* hold the usage of the two responses.
C24_Witness ==
    \E j \in Jobs :
        /\ api_provider = "openai"
        /\ IsPdf(image_paths[j])
        /\ page_count = 2
        /\ job[j].pc = "done"
        /\ ~job[j].failed
        /\ total_input_tokens
             = 2 * (100 + (Len(Prompt(format_type, custom_prompt, language)) \div 4))
        /\ total_cost > 0

\* C25: the text a PDF's job returns in the json format has, for each page, the
\* block "Page k:" and a newline followed by the backend's response for the
\* page pretty-printed with an indent of 2 when the response is the JSON
\* document {"a":1}, and by the response as it is when it is no JSON document.
C25_PdfPagesArePrettyPrinted ==
    [][\A j \in Jobs :
          (/\ IsPdf(image_paths[j])
           /\ format_type = "json"
           /\ job[j].pc = "account"
           /\ job'[j].pc = "done"
           /\ ~job'[j].failed)
          => LET raw(k) == IF k <= Len(job[j].responses)
                           THEN SubSeq(job[j].responses[k], 9, Len(job[j].responses[k]))
                           ELSE job[j].text
                 pretty(t) == IF t = "{\"a\":1}" THEN "{\n  \"a\": 1\n}" ELSE t
             IN  job'[j].future.value =
                     Join("\n", [k \in 1..page_count |->
                                   "Page " \o ToString(k) \o ":\n" \o pretty(raw(k))])]_vars

\* C26: when process_batch has returned, statistics.total is the sum of
\* statistics.successful and statistics.failed, whatever the list of paths, a
\* list that has the same path twice included.
C26_StatisticsAddUp ==
    batch = "returned" => statistics.total = statistics.successful + statistics.failed

\* C27: a backend call that fails (HTTP error, or a response without the
\* expected fields) leaves the three usage counters as they were, for OpenAI,
\* Gemini and Ollama: a step in which a job ends in such a failure changes none.
C27_FailedCallLeavesLedgerUnchanged ==
    [][\A j \in Jobs :
          (/\ job[j].pc /= "done"
           /\ job'[j].pc = "done"
           /\ job'[j].future.value \in {"Error processing image: 500 Server Error",
                                        "Error processing image: 'choices'",
                                        "Error processing image: 'candidates'"})
          => /\ total_input_tokens' = total_input_tokens
             /\ total_output_tokens' = total_output_tokens
             /\ total_cost' = total_cost]_vars

\* C28: no job deletes the file the caller submitted: in every state every
\* submitted path is on disk, whatever its name and with preprocessing on or
\* off.
C28_SourceFileIsNeverDeleted == \A j \in Jobs : image_paths[j] \in files

\* C29: when the model name is a key of the provider's pricing table, the cost a
\* call adds to total_cost is computed with the input and output prices of
\* that key.
C29_ExactKeyHasItsOwnPrice ==
    [][\A j \in Jobs :
          (api_provider \in {"openai", "gemini"} /\ job[j].pc = "account"
             /\ job'[j].pc /= "account")
          => \A i \in DOMAIN PRICING(api_provider) :
                 PRICING(api_provider)[i].key = model_name
                 => total_cost' = total_cost
                        + job[j].input_tokens * PRICING(api_provider)[i].input
                        + job[j].output_tokens * PRICING(api_provider)[i].output]_vars

\* C30: a PDF's job that fails at a page returns the error message only, with
\* no "Page" block and none of the responses of the pages before it in it, and
\* the job is over: no later step of it follows, so no page after the failed
\* one is sent to the backend.
C30_PageFailureEndsTheJob ==
    [][\A j \in Jobs :
          /\ (IsPdf(image_paths[j]) /\ job[j].pc /= "done" /\ job'[j].pc = "done"
                /\ job'[j].failed)
             => /\ SubSeq(job'[j].future.value, 1, 24) = "Error processing image: "
                /\ ~Contains(job'[j].future.value, "Page ")
                /\ \A k \in DOMAIN job[j].responses :
                       ~Contains(job'[j].future.value, job[j].responses[k])
          /\ job[j].pc = "done" => job'[j] = job[j]]_vars

\* C30 happens: the second page of a PDF of two pages failed at the backend
\* after the first was answered (its page file is removed, the second's is
\* not), and the job is over with the error message.
C30_Witness ==
    \E j \in Jobs :
        /\ IsPdf(image_paths[j])
        /\ page_count = 2
        /\ job[j].pc = "done"
        /\ job[j].failed
        /\ PageFile(image_paths[j], 0) \notin files
        /\ PageFile(image_paths[j], 1) \in files
        /\ job[j].future.value = "Error processing image: 500 Server Error"

=============================================================================
